---- MODULE Spec2Model ----
(***************************************************************************)
(* Model of app_returns_analysis.py (Return Regime Analyzer).              *)
(*                                                                         *)
(* One press of "Ejecutar analisis" runs the script body top to bottom:    *)
(* download, data check, returns and statistics, recency, rebound,         *)
(* feature engineering, three tabs and the global conclusion.  The steps   *)
(* are the actions below, sequenced by pc.                                 *)
(*                                                                         *)
(* Numbers.  Dates are day offsets from 2015-01-01 (the default            *)
(* start_date).  A return is held exactly, as an integer number of         *)
(* 1/Scale units; a threshold mu - k*sigma is held exactly as the record   *)
(* [a, k, q, den, m] standing for (a - k*sqrt(q/den)) / m, with m = 0      *)
(* standing for NaN.  Comparisons are decided by exact integer arithmetic  *)
(* (binary floating-point rounding is not modelled).  df["Close"] is a      *)
(* Series: the table has single-level columns.                             *)
(***************************************************************************)
EXTENDS Integers, Sequences, FiniteSets, TLC

VARIABLES run, pc, downloads, df, returns, mu, sigma,
          th_mod, th_fuerte, th_muy_fuerte,
          d_mod, d_fuerte, d_muy_fuerte,
          p_mod, n_mod, p_fuerte, n_fuerte, p_muy_fuerte, n_muy_fuerte,
          df_ret, tab1, by_weekday, by_day, by_month, out, label, exc

vars == <<run, pc, downloads, df, returns, mu, sigma,
          th_mod, th_fuerte, th_muy_fuerte,
          d_mod, d_fuerte, d_muy_fuerte,
          p_mod, n_mod, p_fuerte, n_fuerte, p_muy_fuerte, n_muy_fuerte,
          df_ret, tab1, by_weekday, by_day, by_month, out, label, exc>>

(***************************************************************************)
(* Bounds of the explored inputs.                                          *)
(***************************************************************************)
MaxShort == 4
MaxLong == 25
MaxMoves == 3
MaxFnLen == 3
BigGap == 31

\* closing prices of the short price tables
PriceVals == {1, 2, 4}
\* calendar gaps between consecutive rows of a short table
GapVals == {1, BigGap}
\* offset of the first row of a short table from 2015-01-01
StartDays == {29}
\* price levels of the long price tables, which hold one level for a while
\* and move to another at some of the rows ChangeRows
LongPriceVals == {3, 4, 6, 12}
ChangeRows == {r \in 2..MaxLong : r % 6 = 2} \cup {MaxLong}
\* row of a long table that is preceded by a gap of BigGap days (0: none)
BigGapRows == {0, 10}

(***************************************************************************)
(* Optional values: Python's None, and a present value.                    *)
(***************************************************************************)
None == <<>>
Some(v) == <<v>>

(***************************************************************************)
(* Exact numbers.                                                          *)
(***************************************************************************)
RECURSIVE Gcd(_, _)
Gcd(x, y) == IF y = 0 THEN x ELSE Gcd(y, x % y)

RECURSIVE Lcm(_)
Lcm(S) == IF S = {} THEN 1
          ELSE LET x == CHOOSE y \in S : TRUE
                   l == Lcm(S \ {x})
               IN (x * l) \div Gcd(x, l)

\* unit of a return: every price divides Scale
Scale == Lcm(PriceVals \cup LongPriceVals)

NaN == [a |-> 0, k |-> 0, q |-> 0, den |-> 0, m |-> 0]
Num(v) == [a |-> v, k |-> 0, q |-> 0, den |-> 1, m |-> 1]
IsNaN(t) == t.m = 0

\* x < t: the comparison of Leq made strict
Leq_strict(x, t) ==
    LET c == t.a - t.m * x
        lhs == t.k * t.k * t.q
        rhs == t.den * c * c
    IN /\ ~IsNaN(t)
       /\ IF t.k >= 0 THEN c > 0 /\ lhs < rhs
          ELSE c >= 0 \/ lhs > rhs

\* x <= t for a return x and a threshold t; any comparison with NaN is False.
\* With c = t.a - t.m * x the comparison is t.k * sqrt(t.q / t.den) <= c.
Leq(x, t) ==
    LET c == t.a - t.m * x
        lhs == t.k * t.k * t.q
        rhs == t.den * c * c
    IN /\ ~IsNaN(t)
       /\ IF t.k >= 0 THEN c >= 0 /\ lhs <= rhs
          ELSE c >= 0 \/ lhs >= rhs

RECURSIVE SumSeq(_)
SumSeq(s) == IF s = <<>> THEN 0 ELSE Head(s) + SumSeq(Tail(s))

Rets(series) == [i \in 1..Len(series) |-> series[i].ret]
Dates(series) == [i \in 1..Len(series) |-> series[i].date]

\* Series.mean(): NaN for an empty series
mean(series) ==
    IF Len(series) = 0 THEN NaN
    ELSE [a |-> SumSeq(Rets(series)), k |-> 0, q |-> 0, den |-> 1,
          m |-> Len(series)]

\* Series.std() with ddof = 1: NaN for fewer than two observations;
\* otherwise sqrt(q/den)/m with q = sum (n*r - S)^2, den = n - 1, m = n
std(series) ==
    LET n == Len(series)
        S == SumSeq(Rets(series))
    IN IF n <= 1 THEN NaN
       ELSE [a |-> 0, k |-> 1,
             q |-> SumSeq([i \in 1..n |->
                             (n * series[i].ret - S) * (n * series[i].ret - S)]),
             den |-> n - 1, m |-> n]

\* mu + kk * sigma
Minus_plus(mean_, kk, std_) ==
    IF IsNaN(mean_) \/ IsNaN(std_) THEN NaN
    ELSE [a |-> mean_.a, k |-> 0 - kk, q |-> std_.q, den |-> std_.den,
          m |-> mean_.m]

\* the multipliers of the moderate and of the very strong tier exchanged
Minus_swapped(mean_, kk, std_) ==
    IF IsNaN(mean_) \/ IsNaN(std_) THEN NaN
    ELSE [a |-> mean_.a, k |-> 4 - kk, q |-> std_.q, den |-> std_.den,
          m |-> mean_.m]

\* mu - kk * sigma, both taken over the same series
Minus(mean_, kk, std_) ==
    IF IsNaN(mean_) \/ IsNaN(std_) THEN NaN
    ELSE [a |-> mean_.a, k |-> kk, q |-> std_.q, den |-> std_.den,
          m |-> mean_.m]

(***************************************************************************)
(* Calendar of 2015: DatetimeIndex.dayofweek, .day and .month.             *)
(***************************************************************************)
MonthDays == <<31, 28, 31, 30, 31, 30, 31, 31, 30, 31, 30, 31>>

\* 2015-01-01 is a Thursday; Monday = 0
dayofweek(d) == (d + 3) % 7

RECURSIVE MonthOf(_, _)
MonthOf(d, mth) == IF mth >= 12 \/ d < MonthDays[mth] THEN mth
                   ELSE MonthOf(d - MonthDays[mth], mth + 1)
RECURSIVE DayOf(_, _)
DayOf(d, mth) == IF mth >= 12 \/ d < MonthDays[mth] THEN d + 1
                 ELSE DayOf(d - MonthDays[mth], mth + 1)
month(d) == MonthOf(d, 1)
day(d) == DayOf(d, 1)

(***************************************************************************)
(* The functions of the script.                                            *)
(***************************************************************************)
\* returns[returns <= threshold]
Below(series, threshold) ==
    SelectSeq(series, LAMBDA e : Leq(e.ret, threshold))

Last(s) == s[Len(s)]

\* the first event taken for the latest one
days_since_event_first(series, threshold) ==
    LET idx == Dates(Below(series, threshold))
    IN IF Len(idx) = 0 THEN None
       ELSE Some(Last(Dates(series)) - Head(idx))

days_since_event(series, threshold) ==
    LET idx == Dates(Below(series, threshold))
    IN IF Len(idx) = 0 THEN None
       ELSE Some(Last(Dates(series)) - Last(idx))

\* returns.shift(-1): each date carries the next return; the last carries NaN
shift(series) ==
    [i \in 1..Len(series) |->
        [date |-> series[i].date,
         ret |-> IF i < Len(series) THEN Some(series[i + 1].ret) ELSE None]]

\* .loc[date] of a series with unique dates
loc(series, dt) ==
    LET i == CHOOSE j \in 1..Len(series) : series[j].date = dt
    IN series[i].ret

\* drops[drops.index <= returns.index[-1]]
BeforeLast_incl(drops, series) ==
    SelectSeq(drops, LAMBDA e : e.date <= Last(Dates(series)))

\* drops[drops.index < returns.index[-1]]
BeforeLast(drops, series) ==
    SelectSeq(drops, LAMBDA e : e.date < Last(Dates(series)))

\* the events whose next-day return is looked up
Drops(series, threshold) == BeforeLast(Below(series, threshold), series)

\* returns.shift(-1).loc[drops.index]
next_returns(series, threshold) ==
    LET drops == Drops(series, threshold)
    IN [i \in 1..Len(drops) |-> loc(shift(series), drops[i].date)]

\* x >= 0
Positive_orzero(x) == x # None /\ x[1] >= 0

\* x > 0 for a possibly missing x; NaN > 0 is False
Positive(x) == x # None /\ x[1] > 0

\* the pair (probability, sample count); the probability is the exact
\* fraction [num, den]
prob_positive_after_drop(series, threshold) ==
    LET drops == Drops(series, threshold)
        nxt == next_returns(series, threshold)
    IN IF Len(drops) = 0 THEN <<None, 0>>
       ELSE <<Some([num |-> Cardinality({i \in 1..Len(nxt) : Positive(nxt[i])}),
                    den |-> Len(nxt)]),
              Len(drops)>>

\* returns.index[-1] inside prob_positive_after_drop raises IndexError on an
\* empty series
RaisesIndexError(series) == Len(series) = 0

(***************************************************************************)
(* Price tables the download may return.                                   *)
(***************************************************************************)
RECURSIVE DatesFrom(_, _)
DatesFrom(start, gaps) ==
    IF gaps = <<>> THEN <<start>>
    ELSE <<start>> \o DatesFrom(start + Head(gaps), Tail(gaps))

Table(cols, dates, prices) == [cols |-> cols, index |-> dates, Close |-> prices]

EmptyTable == Table({}, <<>>, <<>>)

ShortTables ==
    UNION {{Table({"Close"}, DatesFrom(s, g), c) :
               s \in StartDays, g \in [1..(n - 1) -> GapVals],
               c \in [1..n -> PriceVals]} : n \in 1..MaxShort}

LongGaps(row) == [i \in 1..(MaxLong - 1) |-> IF i + 1 = row THEN BigGap ELSE 1]

\* the levels a long table goes through, no level twice in a row
LevelLists ==
    UNION {{l \in [1..k -> LongPriceVals] :
               \A i \in 1..(k - 1) : l[i] # l[i + 1]} : k \in 1..(MaxMoves + 1)}

\* the closing prices that start at levels[1] and move to the next level at
\* each row of changes
LongPrices(levels, changes) ==
    [i \in 1..MaxLong |-> levels[1 + Cardinality({c \in changes : c <= i})]]

LongTables ==
    {Table({"Close"}, DatesFrom(0, LongGaps(t[1])), LongPrices(t[2], t[3])) :
        t \in {u \in BigGapRows \X LevelLists \X SUBSET ChangeRows :
                  Cardinality(u[3]) = Len(u[2]) - 1}}

\* a table with rows but without a Close column
NoCloseTables == {Table({"Open"}, <<0, 1>>, <<1, 2>>)}

Tables == {EmptyTable} \cup NoCloseTables \cup ShortTables \cup LongTables

(***************************************************************************)
(* Steps of the script.                                                    *)
(***************************************************************************)
\* Series.pct_change() of one row, in 1/Scale units
pct_change(prev, cur) == ((cur - prev) * Scale) \div prev

\* close.pct_change().dropna(): the first row has no return and is dropped
ReturnSeries(table) ==
    [i \in 1..(Len(table.Close) - 1) |->
        [date |-> table.index[i + 1],
         ret |-> pct_change(table.Close[i], table.Close[i + 1])]]

\* Series.squeeze() turns a one-element Series into a scalar
SqueezesToScalar(s) == Len(s) = 1

\* df.empty alone
DataUnavailable_empty(table) == Len(table.index) = 0

\* df.empty or "Close" not in df.columns
DataUnavailable(table) == Len(table.index) = 0 \/ "Close" \notin table.cols

weekday_map ==
    (0 :> "Lunes" @@ 1 :> "Martes" @@ 2 :> "Miercoles" @@ 3 :> "Jueves"
       @@ 4 :> "Viernes")

\* df_ret with its three calendar columns
Frame(series) ==
    [i \in 1..Len(series) |->
        [date |-> series[i].date, ret |-> series[i].ret,
         weekday |-> dayofweek(series[i].date),
         day |-> day(series[i].date),
         month |-> month(series[i].date)]]

\* df_ret.groupby(col)["ret"].mean(): one entry per observed key, in key
\* order; the mean is the exact fraction [num, den]
RECURSIVE groupby_mean(_, _, _, _)
groupby_mean(frame, col, k, hi) ==
    IF k > hi THEN <<>>
    ELSE LET rows == SelectSeq(frame, LAMBDA e : e[col] = k)
         IN (IF Len(rows) = 0 THEN <<>>
             ELSE <<[key |-> k,
                     mean |-> [num |-> SumSeq(Rets(rows)), den |-> Len(rows)]]>>)
            \o groupby_mean(frame, col, k + 1, hi)

\* by_weekday.index.map(weekday_map): a key outside the dict becomes NaN
index_map(series, dict) ==
    [i \in 1..Len(series) |->
        [key |-> IF series[i].key \in DOMAIN dict THEN dict[series[i].key]
                 ELSE "nan",
         mean |-> series[i].mean]]

\* f"{d if d is not None else 'Nunca'} dias"
ShowDays(d) == IF d # None THEN <<"dias", d[1]>> ELSE <<"Nunca">>

\* f"{p*100:.1f}%": the percentage rounded to tenths, held in tenths
FormatPct(p) == (2000 * p.num + p.den) \div (2 * p.den)

\* the rebound line of one tier
ShowProb(p, n) ==
    IF p # None THEN <<"pct", FormatPct(p[1]), n>>
    ELSE <<"sin eventos suficientes">>

RecentDays == 30

\* the strong tier tested before the very strong one
regime_swapped(muy_fuerte, fuerte) ==
    IF fuerte # None /\ fuerte[1] < RecentDays THEN "elevated"
    ELSE IF muy_fuerte # None /\ muy_fuerte[1] < RecentDays THEN "high_risk"
    ELSE "stable"

\* the global conclusion
regime(muy_fuerte, fuerte) ==
    IF muy_fuerte # None /\ muy_fuerte[1] < RecentDays THEN "high_risk"
    ELSE IF fuerte # None /\ fuerte[1] < RecentDays THEN "elevated"
    ELSE "stable"

NoStats ==
    /\ returns = <<>> /\ mu = NaN /\ sigma = NaN
    /\ th_mod = NaN /\ th_fuerte = NaN /\ th_muy_fuerte = NaN
NoRecency == d_mod = None /\ d_fuerte = None /\ d_muy_fuerte = None
NoRebound ==
    /\ p_mod = None /\ n_mod = 0 /\ p_fuerte = None /\ n_fuerte = 0
    /\ p_muy_fuerte = None /\ n_muy_fuerte = 0
NoRender ==
    /\ df_ret = <<>> /\ tab1 = <<>> /\ by_weekday = <<>> /\ by_day = <<>>
    /\ by_month = <<>> /\ out = <<>> /\ label = None /\ exc = None

Init ==
    /\ run \in BOOLEAN
    /\ pc = "start"
    /\ downloads = 0
    /\ df = EmptyTable
    /\ NoStats /\ NoRecency /\ NoRebound /\ NoRender

\* lines 47-56: the button was pressed and yf.download returns a table
Download ==
    /\ pc = "start" /\ run
    /\ \E t \in Tables : df' = t
    /\ downloads' = downloads + 1
    /\ pc' = "check"
    /\ UNCHANGED <<run, returns, mu, sigma, th_mod, th_fuerte, th_muy_fuerte,
                   d_mod, d_fuerte, d_muy_fuerte, p_mod, n_mod, p_fuerte,
                   n_fuerte, p_muy_fuerte, n_muy_fuerte, df_ret, tab1,
                   by_weekday, by_day, by_month, out, label, exc>>

\* lines 58-60: st.error and st.stop
Unavailable ==
    /\ pc = "check" /\ DataUnavailable(df)
    /\ out' = Append(out, "error")
    /\ pc' = "stopped"
    /\ UNCHANGED <<run, downloads, df, returns, mu, sigma, th_mod, th_fuerte,
                   th_muy_fuerte, d_mod, d_fuerte, d_muy_fuerte, p_mod, n_mod,
                   p_fuerte, n_fuerte, p_muy_fuerte, n_muy_fuerte, df_ret,
                   tab1, by_weekday, by_day, by_month, label, exc>>

\* lines 62-73: returns, mean, standard deviation and the three thresholds
Stats ==
    /\ pc = "check" /\ ~DataUnavailable(df)
    /\ returns' = ReturnSeries(df)
    /\ mu' = mean(returns')
    /\ sigma' = std(returns')
    /\ th_mod' = Minus(mu', 1, sigma')
    /\ th_fuerte' = Minus(mu', 2, sigma')
    /\ th_muy_fuerte' = Minus(mu', 3, sigma')
    /\ pc' = "recency"
    /\ UNCHANGED <<run, downloads, df, d_mod, d_fuerte, d_muy_fuerte, p_mod,
                   n_mod, p_fuerte, n_fuerte, p_muy_fuerte, n_muy_fuerte,
                   df_ret, tab1, by_weekday, by_day, by_month, out, label,
                   exc>>

\* lines 75-77
Recency ==
    /\ pc = "recency"
    /\ d_mod' = days_since_event(returns, th_mod)
    /\ d_fuerte' = days_since_event(returns, th_fuerte)
    /\ d_muy_fuerte' = days_since_event(returns, th_muy_fuerte)
    /\ pc' = "rebound"
    /\ UNCHANGED <<run, downloads, df, returns, mu, sigma, th_mod, th_fuerte,
                   th_muy_fuerte, p_mod, n_mod, p_fuerte, n_fuerte,
                   p_muy_fuerte, n_muy_fuerte, df_ret, tab1, by_weekday,
                   by_day, by_month, out, label, exc>>

\* lines 79-81; the first call raises on an empty return series
Rebound ==
    /\ pc = "rebound"
    /\ IF RaisesIndexError(returns)
       THEN /\ exc' = Some("IndexError")
            /\ pc' = "crashed"
            /\ UNCHANGED <<p_mod, n_mod, p_fuerte, n_fuerte, p_muy_fuerte,
                           n_muy_fuerte>>
       ELSE /\ p_mod' = prob_positive_after_drop(returns, th_mod)[1]
            /\ n_mod' = prob_positive_after_drop(returns, th_mod)[2]
            /\ p_fuerte' = prob_positive_after_drop(returns, th_fuerte)[1]
            /\ n_fuerte' = prob_positive_after_drop(returns, th_fuerte)[2]
            /\ p_muy_fuerte' =
                   prob_positive_after_drop(returns, th_muy_fuerte)[1]
            /\ n_muy_fuerte' =
                   prob_positive_after_drop(returns, th_muy_fuerte)[2]
            /\ pc' = "features"
            /\ exc' = exc
    /\ UNCHANGED <<run, downloads, df, returns, mu, sigma, th_mod, th_fuerte,
                   th_muy_fuerte, d_mod, d_fuerte, d_muy_fuerte, df_ret, tab1,
                   by_weekday, by_day, by_month, out, label>>

\* lines 86-92: close and returns are rebuilt with squeeze(); a scalar has
\* neither pct_change nor to_frame
Features ==
    /\ pc = "features"
    /\ IF SqueezesToScalar(df.Close) \/ SqueezesToScalar(ReturnSeries(df))
       THEN /\ exc' = Some("AttributeError")
            /\ pc' = "crashed"
            /\ UNCHANGED <<returns, df_ret>>
       ELSE /\ returns' = ReturnSeries(df)
            /\ df_ret' = Frame(returns')
            /\ pc' = "tab1"
            /\ exc' = exc
    /\ UNCHANGED <<run, downloads, df, mu, sigma, th_mod, th_fuerte,
                   th_muy_fuerte, d_mod, d_fuerte, d_muy_fuerte, p_mod, n_mod,
                   p_fuerte, n_fuerte, p_muy_fuerte, n_muy_fuerte, tab1,
                   by_weekday, by_day, by_month, out, label>>

\* lines 110-146: metrics, days since the last drop, rebound probabilities
Tab1 ==
    /\ pc = "tab1"
    /\ tab1' = <<ShowDays(d_mod), ShowDays(d_fuerte), ShowDays(d_muy_fuerte),
                 ShowProb(p_mod, n_mod), ShowProb(p_fuerte, n_fuerte),
                 ShowProb(p_muy_fuerte, n_muy_fuerte)>>
    /\ out' = Append(out, "tab1")
    /\ pc' = "tab2"
    /\ UNCHANGED <<run, downloads, df, returns, mu, sigma, th_mod, th_fuerte,
                   th_muy_fuerte, d_mod, d_fuerte, d_muy_fuerte, p_mod, n_mod,
                   p_fuerte, n_fuerte, p_muy_fuerte, n_muy_fuerte, df_ret,
                   by_weekday, by_day, by_month, label, exc>>

\* lines 151-181: the three seasonality charts
Tab2 ==
    /\ pc = "tab2"
    /\ by_weekday' = index_map(groupby_mean(df_ret, "weekday", 0, 6),
                               weekday_map)
    /\ by_day' = groupby_mean(df_ret, "day", 1, 31)
    /\ by_month' = groupby_mean(df_ret, "month", 1, 12)
    /\ out' = Append(out, "tab2")
    /\ pc' = "tab3"
    /\ UNCHANGED <<run, downloads, df, returns, mu, sigma, th_mod, th_fuerte,
                   th_muy_fuerte, d_mod, d_fuerte, d_muy_fuerte, p_mod, n_mod,
                   p_fuerte, n_fuerte, p_muy_fuerte, n_muy_fuerte, df_ret,
                   tab1, label, exc>>

\* lines 186-203: the histogram with the three threshold lines
Tab3 ==
    /\ pc = "tab3"
    /\ out' = Append(out, "tab3")
    /\ pc' = "conclusion"
    /\ UNCHANGED <<run, downloads, df, returns, mu, sigma, th_mod, th_fuerte,
                   th_muy_fuerte, d_mod, d_fuerte, d_muy_fuerte, p_mod, n_mod,
                   p_fuerte, n_fuerte, p_muy_fuerte, n_muy_fuerte, df_ret,
                   tab1, by_weekday, by_day, by_month, label, exc>>

\* lines 208-216
Conclusion ==
    /\ pc = "conclusion"
    /\ label' = Some(regime(d_muy_fuerte, d_fuerte))
    /\ out' = Append(out, "conclusion")
    /\ pc' = "done"
    /\ UNCHANGED <<run, downloads, df, returns, mu, sigma, th_mod, th_fuerte,
                   th_muy_fuerte, d_mod, d_fuerte, d_muy_fuerte, p_mod, n_mod,
                   p_fuerte, n_fuerte, p_muy_fuerte, n_muy_fuerte, df_ret,
                   tab1, by_weekday, by_day, by_month, exc>>

Next ==
    \/ Download
    \/ Unavailable
    \/ Stats
    \/ Recency
    \/ Rebound
    \/ Features
    \/ Tab1
    \/ Tab2
    \/ Tab3
    \/ Conclusion

Spec == Init /\ [][Next]_vars

(***************************************************************************)
(* The two functions on their own: any return series, any three            *)
(* thresholds, then lines 75-81.                                           *)
(***************************************************************************)
FnRets == {-1, 0, 1}
FnGaps == {1, 2}
FnThresholds == {NaN, Num(-1), Num(0), Num(1)}

FnSeries ==
    {<<>>} \cup
    UNION {{[i \in 1..n |-> [date |-> DatesFrom(0, g)[i], ret |-> r[i]]] :
               g \in [1..(n - 1) -> FnGaps], r \in [1..n -> FnRets]} :
           n \in 1..MaxFnLen}

InitFn ==
    /\ run = TRUE
    /\ pc = "recency"
    /\ downloads = 1
    /\ df = EmptyTable
    /\ returns \in FnSeries
    /\ mu = NaN /\ sigma = NaN
    /\ th_mod \in FnThresholds
    /\ th_fuerte \in FnThresholds
    /\ th_muy_fuerte \in FnThresholds
    /\ NoRecency /\ NoRebound /\ NoRender

NextFn ==
    \/ Recency
    \/ Rebound

SpecFn == InitFn /\ [][NextFn]_vars

(***************************************************************************)
(* The conclusion on its own: any three recency values, then lines         *)
(* 208-216.                                                                *)
(***************************************************************************)
RecencyVals == {None, Some(0), Some(10), Some(29), Some(30), Some(40)}

InitRegime ==
    /\ run = TRUE
    /\ pc = "conclusion"
    /\ downloads = 1
    /\ df = EmptyTable
    /\ NoStats
    /\ d_mod \in RecencyVals
    /\ d_fuerte \in RecencyVals
    /\ d_muy_fuerte \in RecencyVals
    /\ NoRebound /\ NoRender

NextRegime == Conclusion

SpecRegime == InitRegime /\ [][NextRegime]_vars

(***************************************************************************)
(* Vocabulary of the properties.                                           *)
(***************************************************************************)
\* positions of the returns at or below a threshold
EventRows(series, t) == {i \in 1..Len(series) : Leq(series[i].ret, t)}
EventDates(series, t) == {series[i].date : i \in EventRows(series, t)}
MaxOf(S) == CHOOSE x \in S : \A y \in S : y <= x

AfterRecency == {"rebound", "features", "crashed", "tab1", "tab2", "tab3",
                 "conclusion", "done"}
AfterRebound == {"features", "tab1", "tab2", "tab3", "conclusion", "done"}
AfterTab1 == {"tab2", "tab3", "conclusion", "done"}
AfterTab2 == {"tab3", "conclusion", "done"}

\* C1: the label is decided by the very_strong and strong recency alone,
\* first match wins: very_strong defined and < 30 gives high_risk, otherwise
\* strong defined and < 30 gives elevated, otherwise stable; an undefined
\* recency never counts as < 30 and one label is emitted per completed run.
C1_RegimeLabel ==
    pc = "done" =>
        /\ label \in {Some("high_risk"), Some("elevated"), Some("stable")}
        /\ Len(SelectSeq(out, LAMBDA o : o = "conclusion")) = 1
        /\ label = Some("high_risk")
              <=> (d_muy_fuerte # None /\ d_muy_fuerte[1] < 30)
        /\ label = Some("elevated")
              <=> /\ ~(d_muy_fuerte # None /\ d_muy_fuerte[1] < 30)
                  /\ d_fuerte # None /\ d_fuerte[1] < 30
        /\ (d_muy_fuerte = None /\ d_fuerte = None) => label = Some("stable")

\* very_strong recency 10 gives high_risk although the strong recency is 40
C1_Witness ==
    /\ pc = "done"
    /\ d_muy_fuerte = Some(10) /\ d_fuerte = Some(40)
    /\ label = Some("high_risk")

\* C2: days_since_event is None exactly when no return is <= threshold, and
\* otherwise the non-negative difference between the last date of the series
\* and the date of the latest event.
RecencyOf(series, t, d) ==
    IF EventDates(series, t) = {} THEN d = None
    ELSE /\ d # None
         /\ d[1] >= 0
         /\ d[1] = series[Len(series)].date - MaxOf(EventDates(series, t))

C2_DaysSinceEvent ==
    pc \in AfterRecency =>
        /\ RecencyOf(returns, th_mod, d_mod)
        /\ RecencyOf(returns, th_fuerte, d_fuerte)
        /\ RecencyOf(returns, th_muy_fuerte, d_muy_fuerte)

\* two events, the latest of them before the last date; and a tier without
\* events on a non-empty series
C2_Witness ==
    /\ pc = "rebound"
    /\ Cardinality(EventDates(returns, th_mod)) >= 2
    /\ d_mod # None /\ d_mod[1] > 0
    /\ returns # <<>> /\ d_muy_fuerte = None

\* C3: the sample count is the number of dates whose return is <= threshold
\* and whose date is strictly before the last date; no looked-up next-day
\* return is missing.
CountOf(series, t, n) ==
    /\ n = Cardinality({i \in EventRows(series, t) :
                           series[i].date < series[Len(series)].date})
    /\ \A i \in 1..Len(next_returns(series, t)) :
           next_returns(series, t)[i] # None

C3_SampleCount ==
    pc \in AfterRebound =>
        /\ CountOf(returns, th_mod, n_mod)
        /\ CountOf(returns, th_fuerte, n_fuerte)
        /\ CountOf(returns, th_muy_fuerte, n_muy_fuerte)

\* an event on the final date next to counted events
C3_Witness ==
    /\ pc = "features"
    /\ Len(returns) \in EventRows(returns, th_mod)
    /\ n_mod >= 1
    /\ n_mod = Cardinality(EventRows(returns, th_mod)) - 1

\* C4: the probability is None exactly when the sample count is 0, otherwise
\* the fraction of qualifying events followed by a return > 0; the rebound
\* line shows a percentage exactly when the probability is defined.
ProbOf(series, t, p, n) ==
    LET q == {i \in EventRows(series, t) : i < Len(series)}
        up == {i \in q : series[i + 1].ret > 0}
    IN /\ p = None <=> n = 0
       /\ p # None => p[1] = [num |-> Cardinality(up), den |-> n]
       /\ n = Cardinality(q)

ShownOf(line, p, n) ==
    /\ line[1] = "pct" <=> p # None
    /\ p # None =>
          /\ line[3] = n
          /\ 2 * (line[2] * p[1].den - 1000 * p[1].num) <= p[1].den
          /\ 2 * (1000 * p[1].num - line[2] * p[1].den) <= p[1].den

C4_Probability ==
    /\ pc \in AfterRebound =>
          /\ ProbOf(returns, th_mod, p_mod, n_mod)
          /\ ProbOf(returns, th_fuerte, p_fuerte, n_fuerte)
          /\ ProbOf(returns, th_muy_fuerte, p_muy_fuerte, n_muy_fuerte)
    /\ pc \in AfterTab1 =>
          /\ ShownOf(tab1[4], p_mod, n_mod)
          /\ ShownOf(tab1[5], p_fuerte, n_fuerte)
          /\ ShownOf(tab1[6], p_muy_fuerte, n_muy_fuerte)

\* a defined probability of 0 whose next-day return is exactly zero, shown
\* as 0.0%, next to an undefined one
C4_Witness ==
    /\ pc = "done"
    /\ p_mod # None /\ p_mod[1].num = 0
    /\ \E i \in EventRows(returns, th_mod) :
           i < Len(returns) /\ returns[i + 1].ret = 0
    /\ tab1[4] = <<"pct", 0, n_mod>>
    /\ p_muy_fuerte = None /\ tab1[6] = <<"sin eventos suficientes">>

\* minimum number of returns the analysis is specified to require
MinRequired == 50

\* C5: with fewer returns than the minimum nothing is computed or shown.
C5_InsufficientData ==
    (pc \notin {"start", "check"} /\ ~DataUnavailable(df)
        /\ Len(ReturnSeries(df)) < MinRequired)
    => /\ NoStats /\ NoRecency /\ NoRebound
       /\ tab1 = <<>> /\ by_weekday = <<>> /\ by_day = <<>>
       /\ by_month = <<>> /\ label = None
       /\ \A i \in 1..Len(out) : out[i] = "error"

\* C6: an empty table or one without Close ends the run in one reported
\* error with nothing computed or shown and a single download; a finished
\* run shows either every section or no section and one error; a stopped
\* run takes no further step.
Fetched == pc \notin {"start", "check"}
NoData == Len(df.index) = 0 \/ "Close" \notin df.cols

C6_State ==
    /\ downloads <= 1
    /\ (Fetched /\ NoData) =>
          /\ pc = "stopped" /\ out = <<"error">> /\ downloads = 1
          /\ NoStats /\ NoRecency /\ NoRebound
          /\ df_ret = <<>> /\ tab1 = <<>> /\ by_weekday = <<>>
          /\ by_day = <<>> /\ by_month = <<>> /\ label = None
    /\ pc = "done" =>
          /\ out = <<"tab1", "tab2", "tab3", "conclusion">>
          /\ label # None /\ exc = None
    /\ pc = "stopped" => out = <<"error">> /\ exc = None /\ label = None
    /\ pc = "crashed" => out = <<>> /\ exc # None /\ label = None

C6_TerminalError == [][pc = "stopped" => FALSE]_vars /\ []C6_State

C6_Witness ==
    /\ pc = "stopped" /\ Len(df.index) > 0 /\ "Close" \notin df.cols
    /\ out = <<"error">>

\* C7: the event dates at mu - 3 sigma are among those at mu - 2 sigma, which
\* are among those at mu - sigma.
C7_NestedEvents ==
    pc \notin {"start", "check"} =>
        /\ EventDates(returns, th_muy_fuerte) \subseteq
              EventDates(returns, th_fuerte)
        /\ EventDates(returns, th_fuerte) \subseteq
              EventDates(returns, th_mod)

\* a very strong event, more strong events than very strong ones and more
\* moderate events than strong ones
C7_Witness ==
    /\ pc = "done"
    /\ EventDates(returns, th_muy_fuerte) # {}
    /\ EventDates(returns, th_muy_fuerte) # EventDates(returns, th_fuerte)
    /\ EventDates(returns, th_fuerte) # EventDates(returns, th_mod)

\* C8: with at least two returns, all identical, the three thresholds equal
\* the mean, every date is an event at every tier, every recency is 0 and
\* every sample count is the number of returns minus one.
AllIdentical ==
    /\ Len(returns) >= 2
    /\ \A i \in 1..Len(returns) : returns[i].ret = returns[1].ret

\* the threshold t has exactly the value of the common return
AtMean(t) ==
    /\ ~IsNaN(t)
    /\ t.k * t.k * t.q = 0
    /\ t.a = t.m * returns[1].ret

C8_ZeroSigma ==
    (pc \in AfterRebound /\ AllIdentical) =>
        /\ AtMean(th_mod) /\ AtMean(th_fuerte) /\ AtMean(th_muy_fuerte)
        /\ \A t \in {th_mod, th_fuerte, th_muy_fuerte} :
               EventRows(returns, t) = 1..Len(returns)
        /\ d_mod = Some(0) /\ d_fuerte = Some(0) /\ d_muy_fuerte = Some(0)
        /\ n_mod = Len(returns) - 1
        /\ n_fuerte = Len(returns) - 1
        /\ n_muy_fuerte = Len(returns) - 1

\* identical non-zero returns
C8_Witness ==
    /\ pc = "done" /\ AllIdentical
    /\ returns[1].ret # 0
    /\ d_muy_fuerte = Some(0) /\ n_muy_fuerte = Len(returns) - 1

\* C9: each seasonality mapping has one entry per observed key, under that
\* key, holding the mean of exactly the returns of that key.
KeysOf(col) == {df_ret[i][col] : i \in 1..Len(df_ret)}
MeanOf(col, k) ==
    LET rows == {i \in 1..Len(df_ret) : df_ret[i][col] = k}
    IN [num |-> SumSeq(Rets(SelectSeq(df_ret, LAMBDA e : e[col] = k))),
        den |-> Cardinality(rows)]

\* one entry per observed key, in key order, no two entries under one key,
\* each holding the mean of the returns of its key
RECURSIVE Sorted(_)
Sorted(S) ==
    IF S = {} THEN <<>>
    ELSE LET x == CHOOSE y \in S : \A z \in S : y <= z
         IN <<x>> \o Sorted(S \ {x})

MappingOf(col, mapping) ==
    LET keys == Sorted(KeysOf(col))
    IN /\ Len(mapping) = Len(keys)
       /\ \A i, j \in 1..Len(mapping) :
              mapping[i].key = mapping[j].key => i = j
       /\ \A i \in 1..Len(mapping) : mapping[i].mean = MeanOf(col, keys[i])

C9_Seasonality ==
    pc \in AfterTab2 =>
        /\ MappingOf("weekday", by_weekday)
        /\ \A i \in 1..Len(by_weekday) :
               Sorted(KeysOf("weekday"))[i] \in DOMAIN weekday_map =>
                   by_weekday[i].key =
                       weekday_map[Sorted(KeysOf("weekday"))[i]]
        /\ MappingOf("day", by_day)
        /\ \A i \in 1..Len(by_day) :
               by_day[i].key = Sorted(KeysOf("day"))[i]
        /\ MappingOf("month", by_month)
        /\ \A i \in 1..Len(by_month) :
               by_month[i].key = Sorted(KeysOf("month"))[i]

\* C10: recency grows with severity: a defined very_strong recency comes with
\* defined strong and moderate ones and moderate <= strong <= very_strong;
\* high_risk is only emitted with the strong recency defined and < 30.
C10_MonotoneRecency ==
    pc \in AfterRecency =>
        /\ d_muy_fuerte # None =>
              /\ d_fuerte # None /\ d_mod # None
              /\ d_fuerte[1] <= d_muy_fuerte[1]
        /\ d_fuerte # None => d_mod # None /\ d_mod[1] <= d_fuerte[1]
        /\ label = Some("high_risk") => d_fuerte # None /\ d_fuerte[1] < 30

\* high_risk with three different recencies
C10_Witness ==
    /\ pc = "done"
    /\ label = Some("high_risk")
    /\ d_mod[1] < d_fuerte[1]
    /\ d_fuerte[1] < d_muy_fuerte[1]

====
